---- MODULE Spec2Model ----
(***************************************************************************)
(* State-machine model of the Canvas of water-simulation.py: the wave-     *)
(* source list and its aggregation, the timer/draw loop, the camera basis, *)
(* the key-driven configuration and the two shaders of the water program.  *)
(*                                                                         *)
(* Units.  Lengths, vector components and gl coordinates are fixed-point   *)
(* numbers in thousandths (1000 stands for 1.0).  Elapsed time is counted  *)
(* in hundredths of a second, so propagate(0.01) adds DT = 1.  The bed     *)
(* depth offset and the layer multipliers are counted in tenths.  A field  *)
(* divided by a count is kept as the exact fraction [sum, n].              *)
(***************************************************************************)
EXTENDS Integers, Sequences, FiniteSets, TLC

\* ---------------------------------------------------------------- bounds
\* the budgets of the subsystem specifications
MaxTicks == 3
MaxSpawns == 2
MaxRot == 2
MaxKeys == 2
\* the budgets of the specification of all handlers together
FewTicks == 2
FewSpawns == 1
FewRot == 1
FewKeys == 1

\* ------------------------------------------------------ program constants
\* the argument of every propagate call of on_timer, in hundredths
DT == 1
\* elapsed time from which a wave source reports is_dead(), in hundredths
Lifetime == 2

\* ------------------------------------------------------------ arithmetic
Abs(x) == IF x < 0 THEN -x ELSE x

Sgn(x) == IF x < 0 THEN -1 ELSE IF x > 0 THEN 1 ELSE 0

\* division rounding to nearest, as a float division seen in fixed point
RDiv(a, b) == Sgn(a) * Sgn(b) * ((2 * Abs(a) + Abs(b)) \div (2 * Abs(b)))

\* --------------------------------------------- surface and wave sources
\* surface.position(): the lattice of sample points
Lattice == {<<-500, 0>>, <<500, 0>>}

\* a field holds <<height, grad_x, grad_y>> at every lattice point
ZeroField == [p \in Lattice |-> <<0, 0, 0>>]

AddField(f, g) ==
    [p \in Lattice |-> <<f[p][1] + g[p][1], f[p][2] + g[p][2], f[p][3] + g[p][3]>>]

\* the background surface's height_and_normal() at elapsed time t
SurfaceField(t) ==
    [p \in Lattice |-> <<1 + ((t + (p[1] \div 500)) % 2), t % 2, 1>>]

Dist(c, p) == (Abs(p[1] - c[1]) + Abs(p[2] - c[2])) \div 250

\* a wave source's height_and_normal(): a function of its elapsed time and
\* of the distance from its center only
WaveField(sf) ==
    [p \in Lattice |->
        LET ph == (sf.t + Dist(sf.center, p)) % 3
        IN  <<ph - 1, ph * Sgn(p[1] - sf.center[1]), ph * Sgn(p[2] - sf.center[2])>>]

\* a wave source's is_dead()
IsDead(sf) == sf.t >= Lifetime

\* a wave source's propagate(dt)
Propagate(sf, dt) == [sf EXCEPT !.t = @ + dt]

\* surface_class(center=...): a new source; id stands for the object's
\* identity and born records the number of timer ticks seen at creation
NewWave(id, center, now) == [id |-> id, center |-> center, t |-> 0, born |-> now]

\* ------------------------------------------------------------ fixed point
RECURSIVE SqrtIter(_, _)
SqrtIter(n, x) ==
    LET y == (x + (n \div x)) \div 2
    IN  IF y >= x THEN x ELSE SqrtIter(n, y)

\* floor of the square root
ISqrt(n) == IF n <= 0 THEN 0 ELSE SqrtIter(n, n)

Dot(a, b) == a[1] * b[1] + a[2] * b[2] + a[3] * b[3]

\* np.cross of two fixed-point vectors
Cross(a, b) ==
    << RDiv(a[2] * b[3] - a[3] * b[2], 1000),
       RDiv(a[3] * b[1] - a[1] * b[3], 1000),
       RDiv(a[1] * b[2] - a[2] * b[1], 1000) >>

\* vec * s for a fixed-point scalar s
Scaled(v, s) == << RDiv(v[1] * s, 1000), RDiv(v[2] * s, 1000), RDiv(v[3] * s, 1000) >>

VAdd(a, b) == << a[1] + b[1], a[2] + b[2], a[3] + b[3] >>

VSub(a, b) == << a[1] - b[1], a[2] - b[2], a[3] - b[3] >>

\* the length of a fixed-point vector, in thousandths
Norm(v) == ISqrt(Dot(v, v))

\* normalize(vec): vec / sqrt(sum(vec * vec)); a zero vector divides 0 by 0
NaNVec == <<"nan", "nan", "nan">>

normalize(vec) ==
    LET len == Norm(vec)
    IN  IF len = 0 THEN NaNVec
        ELSE << RDiv(vec[1] * 1000, len), RDiv(vec[2] * 1000, len), RDiv(vec[3] * 1000, len) >>

\* ---------------------------------------------------------------- state
VARIABLES
    surface_class,      \* new_waves_class: "None" or "Wave"
    surface_t,          \* elapsed time of self.surface, in hundredths
    surface_wave_list,  \* self.surface_wave_list
    next_id,            \* identity given to the next created wave source
    ticks,              \* number of on_timer calls so far
    size,               \* self.size, <<W, H>>
    pixel_scale,        \* physical_size = size * pixel_scale
    width, height,      \* self.width, self.height
    a_height, a_normal, \* program["a_height"], program["a_normal"]
    point_a_height,     \* program_point["a_height"]
    drawn,              \* what the last on_draw read
    update_pending,     \* a redraw requested by self.update() is outstanding
    update_req,         \* value of ticks when on_timer last called update()
    camera, up,         \* self.camera, self.up
    u_world_view,       \* program["u_world_view"]
    drag_start,         \* self.drag_start
    rotations,          \* number of rotate_camera calls so far
    are_points_visible,
    flags,              \* diffused_flag, reflected_flag, bed_flag, depth_flag, sky_flag
    mults,              \* u_diffused_mult ... u_sky_mult, in tenths
    u_bed_depth,        \* program["u_bed_depth"], in tenths
    keys,               \* number of key events so far
    last_key,           \* key of the last key event
    closed,             \* self.close() was called
    u_alpha,            \* program["u_alpha"], in thousandths
    u_eye_height,       \* program["u_eye_height"], in thousandths
    vertex_out,         \* what the vertex shader last computed, if it ran
    fragment_out        \* what the fragment shader last computed, if it ran

waveVars == <<surface_class, surface_t, surface_wave_list, next_id, ticks>>

sizeVars == <<size, pixel_scale, width, height>>

drawVars == <<a_height, a_normal, point_a_height, drawn, update_pending, update_req>>

cameraVars == <<camera, up, u_world_view, drag_start, rotations>>

keyVars == <<are_points_visible, flags, mults, u_bed_depth, keys, last_key, closed>>

shaderVars == <<u_alpha, u_eye_height, vertex_out, fragment_out>>

vars == <<waveVars, sizeVars, drawVars, cameraVars, keyVars, shaderVars>>

\* self.physical_size
physical_size == <<size[1] * pixel_scale, size[2] * pixel_scale>>

\* ------------------------------------------------------- the wave sources
\* the coordinate mapping of add_wave_center; center is in half pixels
WaveCenter(center, psize) ==
    << RDiv(1500 * (center[1] - psize[1]), 2 * psize[1]),
       RDiv(1500 * (-(center[2] - psize[2])), 2 * psize[2]) >>

\* a sweep that discards nothing
PruneNothing(list) == list

\* [sf for sf in self.surface_wave_list if not sf.is_dead()]
Prune(list) == SelectSeq(list, LAMBDA sf : ~IsDead(sf))

\* add_wave_center without the test of surface_class
add_wave_center_unguarded(list, cls, center, psize, id, now) ==
    Append(Prune(list), NewWave(id, WaveCenter(center, psize), now))

\* add_wave_center(center): the new value of self.surface_wave_list
add_wave_center(list, cls, center, psize, id, now) ==
    IF cls = "None" THEN list
    ELSE Append(Prune(list), NewWave(id, WaveCenter(center, psize), now))

\* the loop of get_hieght_and_normal: [total, sf_len] after the first k sources
RECURSIVE SumWaves(_, _)
SumWaves(list, k) ==
    IF k = 0 THEN [total |-> ZeroField, sf_len |-> 0]
    ELSE LET acc == SumWaves(list, k - 1)
         IN  [total  |-> IF acc.sf_len = 0 THEN WaveField(list[k])
                         ELSE AddField(acc.total, WaveField(list[k])),
              sf_len |-> acc.sf_len + 1]

\* an aggregation that counts the background surface as one more source
MeanWithSurface(list, st) ==
    LET acc == SumWaves(list, Len(list))
    IN  IF acc.sf_len = 0 THEN [sum |-> SurfaceField(st), n |-> 1]
        ELSE [sum |-> AddField(acc.total, SurfaceField(st)), n |-> acc.sf_len + 1]

\* an aggregation that halves the background surface when it stands alone
HalvedSurface(list, st) ==
    LET acc == SumWaves(list, Len(list))
    IN  IF acc.sf_len = 0 THEN [sum |-> SurfaceField(st), n |-> 2]
        ELSE [sum |-> acc.total, n |-> acc.sf_len]

\* an aggregation that leaves the dead sources out
MeanOfLive(list, st) ==
    LET live == SelectSeq(list, LAMBDA sf : ~IsDead(sf))
        acc  == SumWaves(live, Len(live))
    IN  IF acc.sf_len = 0 THEN [sum |-> SurfaceField(st), n |-> 1]
        ELSE [sum |-> acc.total, n |-> acc.sf_len]

\* get_hieght_and_normal(): the field sum / n
get_hieght_and_normal(list, st) ==
    LET acc == SumWaves(list, Len(list))
    IN  IF acc.sf_len = 0 THEN [sum |-> SurfaceField(st), n |-> 1]
        ELSE [sum |-> acc.total, n |-> acc.sf_len]

\* self.surface.propagate(0.01)
PropagateSurface(st) == st + DT

\* a loop that stops before the last source
PropagateAllButLast(list) ==
    [i \in DOMAIN list |-> IF i = Len(list) THEN list[i] ELSE Propagate(list[i], DT)]

\* a loop that advances every source twice
PropagateAllTwice(list) == [i \in DOMAIN list |-> Propagate(list[i], 2 * DT)]

\* a loop that also drops the sources that are dead
PropagateAndPrune(list) ==
    SelectSeq([i \in DOMAIN list |-> Propagate(list[i], DT)], LAMBDA sf : ~IsDead(sf))

\* for sf in self.surface_wave_list: sf.propagate(0.01)
PropagateAll(list) == [i \in DOMAIN list |-> Propagate(list[i], DT)]

HeightOf(avg) == [sum |-> [p \in Lattice |-> avg.sum[p][1]], n |-> avg.n]

GradOf(avg) == [sum |-> [p \in Lattice |-> <<avg.sum[p][2], avg.sum[p][3]>>], n |-> avg.n]

\* an attribute no draw has set yet
Unset == [sum |-> [p \in Lattice |-> 0], n |-> 0]

NotDrawn == [ticks |-> -1, surface_t |-> 0, waves |-> <<>>]

\* ------------------------------------------------------------ the camera
\* rotate_camera(shift): the new <<camera, up>>
rotate_camera(cam, upv, shift) ==
    LET right      == Cross(upv, cam)
        new_camera == VAdd(VSub(cam, Scaled(right, shift[1])), Scaled(upv, shift[2]))
        new_up     == VSub(upv, Scaled(cam, shift[1]))
        c          == normalize(new_camera)
        u          == normalize(new_up)
    IN  << c, Cross(c, Cross(u, c)) >>

\* set_camera(): world_view.T, the rows of the transposed 4x4 matrix
set_camera(cam, upv) ==
    LET r == << Cross(upv, cam), upv, cam >>
    IN  << << r[1][1], r[2][1], r[3][1], 0 >>,
           << r[1][2], r[2][2], r[3][2], 0 >>,
           << r[1][3], r[2][3], r[3][3], 0 >>,
           << 0, 0, 0, 1000 >> >>

\* screen_to_gl_coordinates(pos): 2 * pos / size - 1; pos is in half pixels
screen_to_gl_coordinates(pos, sz) ==
    << RDiv(1000 * pos[1], sz[1]) - 1000, RDiv(1000 * pos[2], sz[2]) - 1000 >>

\* self.drag_start = None
NoDrag == <<>>

\* ------------------------------------------------------ the configuration
\* multipliers in which the seabed layer follows the depth flag
apply_flags_bed_by_depth(f) ==
    [ diffused  |-> IF f.diffused THEN 5 ELSE 0,
      reflected |-> IF f.reflected THEN 10 ELSE 0,
      bed       |-> IF f.depth THEN 10 ELSE 0,
      depth     |-> IF f.depth THEN 10 ELSE 0,
      sky       |-> IF f.sky THEN 10 ELSE 0 ]

\* apply_flags(): the five layer multipliers, in tenths
apply_flags(f) ==
    [ diffused  |-> IF f.diffused THEN 5 ELSE 0,
      reflected |-> IF f.reflected THEN 10 ELSE 0,
      bed       |-> IF f.bed THEN 10 ELSE 0,
      depth     |-> IF f.depth THEN 10 ELSE 0,
      sky       |-> IF f.sky THEN 10 ELSE 0 ]

AllOn == [diffused |-> TRUE, reflected |-> TRUE, bed |-> TRUE, depth |-> TRUE, sky |-> TRUE]

\* the flag a digit key toggles in on_key_press
FlagOfKey(key) ==
    CASE key = "1" -> "diffused"
      [] key = "2" -> "bed"
      [] key = "3" -> "depth"
      [] key = "4" -> "sky"
      [] key = "5" -> "reflected"

DigitKeys == {"1", "2", "3", "4", "5"}

Keys == DigitKeys \cup {"Escape", " ", "Up", "Down", "a"}

\* one key of each kind: a layer toggle, the lattice points, the bed depth, exit
SomeKeys == {"1", " ", "Up", "Escape"}

\* ------------------------------------------------------------ the shaders
\* products and quotients of fixed-point numbers in thousandths; the product
\* is formed from the whole and the fractional part of b so that a large b
\* stays within the integers
Mul(a, b) ==
    LET whole == b \div 1000
    IN  a * whole + RDiv(a * (b - 1000 * whole), 1000)

Div(a, b) == RDiv(a * 1000, b)

Max0(x) == IF x < 0 THEN 0 ELSE x

\* GLSL normalize(v); the result for a vector of length 0 is undefined and
\* is whatever value u the hardware produces
glsl_identity(v, u) == v

glsl_normalize(v, u) ==
    LET len == Norm(v)
    IN  IF len = 0 THEN u
        ELSE << RDiv(v[1] * 1000, len), RDiv(v[2] * 1000, len), RDiv(v[3] * 1000, len) >>

\* the vector that line 31 normalizes
SurfaceNormalFlat(a_n) == << a_n[1], a_n[2], 0 >>

SurfaceNormal(a_n) == << a_n[1], a_n[2], -1000 >>

\* GLSL m * vec4(v, 1) and transpose(m) * vec4(v, 1) for the uniform whose
\* numpy array is m: the array's rows are the columns GLSL reads
MatVec(m, v) ==
    LET w == << v[1], v[2], v[3], 1000 >>
    IN  [r \in 1..4 |->
            RDiv(m[1][r] * w[1] + m[2][r] * w[2] + m[3][r] * w[3] + m[4][r] * w[4], 1000)]

MatTVec(m, v) ==
    LET w == << v[1], v[2], v[3], 1000 >>
    IN  [r \in 1..4 |->
            RDiv(m[r][1] * w[1] + m[r][2] * w[2] + m[r][3] * w[3] + m[r][4] * w[4], 1000)]

\* exp(-x) for x >= 0, as (1 - x/16)^16
ExpNeg(x) ==
    LET b1 == Max0(1000 - RDiv(x, 16))
        b2 == Mul(b1, b1)
        b4 == Mul(b2, b2)
        b8 == Mul(b4, b4)
    IN  Mul(b8, b8)

\* pow(c, 20)
Pow20(c) ==
    LET c2  == Mul(c, c)
        c4  == Mul(c2, c2)
        c5  == Mul(c4, c)
        c10 == Mul(c5, c5)
    IN  Mul(c10, c10)

\* main of the vertex shader for one vertex with attributes a, under the
\* uniforms m (u_world_view), u_bd (u_bed_depth), u_eh (u_eye_height) and
\* u_al (u_alpha), all in thousandths; u holds the values that undefined
\* operations produce.  undef names the results that were undefined.
vertex(a, m, u_bd, u_eh, u_al, u) ==
    LET raw          == SurfaceNormal(a.a_normal)
        v_normal     == glsl_normalize(raw, u.vec)
        v_position   == << a.a_position[1], a.a_position[2], a.a_height >>
        total_depth  == (-a.a_bed_depth) - u_bd
        pv           == MatVec(m, v_position)
        z            == 1000 - Div(1000 + pv[3], 1000 + u_eh)
        dpv          == MatVec(m, << a.a_position[1], a.a_position[2], total_depth >>)
        z_depth      == 1000 - Div(1000 + dpv[3], 1000 + u_eh)
        eye          == MatTVec(m, << 0, 0, u_eh >>)
        to_vertex    == VSub(v_position, << eye[1], eye[2], eye[3] >>)
        from_eye     == glsl_normalize(to_vertex, u.vec)
        normal       == glsl_normalize(<< -v_normal[1], -v_normal[2], -v_normal[3] >>, u.vec)
        nf           == RDiv(Dot(normal, from_eye), 1000)
        refl_raw     == VSub(from_eye, Scaled(normal, 2 * nf))
        v_reflected  == glsl_normalize(refl_raw, u.vec)
        sky_tc       == IF v_reflected[3] = 0 THEN << u.num, u.num >>
                        ELSE << Div(Mul(50, v_reflected[1]), v_reflected[3]) + 500,
                                Div(Mul(50, v_reflected[2]), v_reflected[3]) + 500 >>
        cr           == Cross(normal, from_eye)
        d            == 1000 - Mul(Mul(u_al, u_al), RDiv(Dot(cr, cr), 1000))
        c2           == IF d < 0 THEN u.num ELSE ISqrt(d * 1000)
        refr_raw     == VSub(Scaled(Cross(cr, normal), u_al), Scaled(normal, c2))
        refracted    == glsl_normalize(refr_raw, u.vec)
        c1           == -nf
        t            == IF refracted[3] = 0 THEN u.num
                        ELSE Div(total_depth - v_position[3], refracted[3])
        above        == total_depth > a.a_height
        point_on_bed == IF above THEN v_position
                        ELSE VAdd(v_position, Scaled(refracted, t))
        gl_pos       == IF above
                        THEN << dpv[1], dpv[2], -Mul(pv[3], z_depth), z_depth >>
                        ELSE << pv[1], pv[2], -Mul(pv[3], z), z >>
        den_s        == Mul(u_al, c1) + c2
        den_p        == Mul(u_al, c2) + c1
        q_s          == IF den_s = 0 THEN u.num ELSE Div(Mul(u_al, c1) - c2, den_s)
        q_p          == IF den_p = 0 THEN u.num ELSE Div(Mul(u_al, c2) - c1, den_p)
        diw          == Norm(VSub(point_on_bed, v_position))
    IN  [ a_position      |-> a.a_position,
          a_height        |-> a.a_height,
          a_normal        |-> a.a_normal,
          a_bed_depth     |-> a.a_bed_depth,
          u_bed_depth     |-> u_bd,
          normal_len      |-> Norm(raw),
          v_normal        |-> v_normal,
          v_position      |-> v_position,
          total_depth     |-> total_depth,
          gl_Position     |-> gl_pos,
          from_eye        |-> from_eye,
          normal          |-> normal,
          v_reflected     |-> v_reflected,
          v_sky_texcoord  |-> sky_tc,
          d               |-> d,
          c2              |-> c2,
          point_on_bed    |-> point_on_bed,
          bed_upper_water |-> IF above THEN 1000 ELSE 0,
          v_bed_texcoord  |-> << point_on_bed[1] + 500, point_on_bed[2] + 500 >>,
          v_reflectance   |-> RDiv(Mul(q_s, q_s) + Mul(q_p, q_p), 2),
          diw             |-> diw,
          v_mask          |-> << ExpNeg(diw), ExpNeg(Mul(diw, 500)), ExpNeg(Mul(diw, 200)) >>,
          undef           |-> {x \in {"v_normal"} : Norm(raw) = 0}
                              \cup {x \in {"from_eye"} : Norm(to_vertex) = 0}
                              \cup {x \in {"v_sky_texcoord"} : v_reflected[3] = 0}
                              \cup {x \in {"c2"} : d < 0}
                              \cup {x \in {"t"} : refracted[3] = 0 /\ ~above}
                              \cup {x \in {"v_reflectance"} : den_s = 0 \/ den_p = 0} ]

\* the blended colour of fragment_triangle's main, lines 104-115, for the
\* varyings v, the two texture samples and the five multipliers m (in tenths)
Blend(v, sky_color, bed_color, m, u) ==
    LET sun        == normalize(<< 0, 1000, 100 >>)
        normal     == glsl_normalize(v.v_normal, u.vec)
        diffused   == Mul(100 * m.diffused, Max0(-RDiv(Dot(normal, sun), 1000)))
        cosphi     == Max0(RDiv(Dot(sun, glsl_normalize(v.v_reflected, u.vec)), 1000))
        reflected  == Mul(100 * m.reflected, Pow20(cosphi))
        ambient    == << 0, 300, 500 >>
        sun_diff   == << 1000, 800, 1000 >>
        sun_refl   == << 1000, 800, 600 >>
        image      == [k \in 1..3 |->
                          Mul(Mul(100 * m.bed, bed_color[k]), v.v_mask[k])
                          + Mul(Mul(100 * m.depth, ambient[k]), 1000 - v.v_mask[k])]
    IN  [k \in 1..3 |->
            Mul(Mul(100 * m.sky, sky_color[k]), v.v_reflectance)
            + Mul(image[k], 1000 - v.v_reflectance)
            + Mul(diffused, sun_diff[k])
            + Mul(reflected, sun_refl[k])]

\* a fragment shader without the override for bed above water
fragment_triangle_blend_only(v, sky_color, bed_color, m, u) ==
    LET rgb == Blend(v, sky_color, bed_color, m, u)
    IN  [ bed_upper_water |-> v.bed_upper_water,
          sky_color       |-> sky_color,
          bed_color       |-> bed_color,
          mults           |-> m,
          gl_FragColor    |-> << rgb[1], rgb[2], rgb[3], 1000 >> ]

\* main of fragment_triangle for the fragment at a vertex, whose varyings v
\* are that vertex's
fragment_triangle(v, sky_color, bed_color, m, u) ==
    LET rgb == IF v.bed_upper_water > 500 THEN bed_color
               ELSE Blend(v, sky_color, bed_color, m, u)
    IN  [ bed_upper_water |-> v.bed_upper_water,
          sky_color       |-> sky_color,
          bed_color       |-> bed_color,
          mults           |-> m,
          gl_FragColor    |-> << rgb[1], rgb[2], rgb[3], 1000 >> ]

\* ------------------------------------------------------------ the inputs
Classes == {"None", "Wave"}

Sizes == {<<4, 4>>}

PixelScales == {1}

\* pointer positions, in half pixels: the window's center and its corner
TwoPositions(sz) == {<<sz[1], sz[2]>>, <<0, 0>>}

\* the window's center alone
CenterPosition(sz) == {<<sz[1], sz[2]>>}

\* window sizes with even and odd sides, and the pixel ratios of an ordinary
\* and of a high-density display
ManySizes == {<<4, 4>>, <<8, 4>>, <<5, 3>>}

ManyPixelScales == {1, 2}

\* more pointer positions, for the drags of the camera
DragPositions(sz) ==
    {<<sz[1], sz[2]>>, <<0, 0>>, <<sz[1] + (sz[1] \div 2), sz[2]>>, <<sz[1], sz[2] \div 2>>}

\* the attributes of one vertex: a_position of the lattice, a_height and
\* a_normal of the field, a_bed_depth of bed.depth(); the gradients include
\* the zero gradient and a steep one, the bed depths a bed above the water
VertexAttributes ==
    [ a_position  : Lattice,
      a_height    : {100},
      a_normal    : {<<0, 0>>, <<300, -200>>, <<3000, 0>>},
      a_bed_depth : {1000, -100, -200} ]

\* the samples texture2D returns for the sky and for the bed
SkySamples == {<<500, 600, 900>>}

BedSamples == {<<700, 600, 300>>, <<200, 200, 200>>}

\* what an undefined operation of a shader may produce
Undefined == {[vec |-> <<0, 0, 0>>, num |-> 0], [vec |-> <<1000, 1000, 1000>>, num |-> 1000]}

\* keys that change a uniform of the shaders: the toggle of the bed layer and
\* the two bed depth keys
ShaderKeys == {"2", "Up", "Down"}

\* ----------------------------------------------------------------- Init
\* Canvas.__init__ with new_waves_class of classes and size of sizes, on a
\* display whose pixel ratio is one of scales
InitCanvas(classes, sizes, scales) ==
    /\ surface_class \in classes
    /\ size \in sizes
    /\ pixel_scale \in scales
    /\ surface_t = 0
    /\ ticks = 0
    /\ surface_wave_list =
           add_wave_center(<<>>, surface_class, size, physical_size, 1, 0)
    /\ next_id = IF surface_class = "None" THEN 1 ELSE 2
    /\ width = size[1]
    /\ height = size[2]
    /\ a_height = Unset
    /\ a_normal = Unset
    /\ point_a_height = Unset
    /\ drawn = NotDrawn
    /\ update_pending = FALSE
    /\ update_req = -1
    /\ camera = <<0, 0, 1000>>
    /\ up = <<0, 1000, 0>>
    /\ u_world_view = set_camera(camera, up)
    /\ drag_start = NoDrag
    /\ rotations = 0
    /\ are_points_visible = FALSE
    /\ flags = AllOn
    /\ mults = apply_flags(flags)
    /\ u_bed_depth = 0
    /\ keys = 0
    /\ last_key = ""
    /\ closed = FALSE
    /\ u_alpha = 300
    /\ u_eye_height = 3000
    /\ vertex_out = <<>>
    /\ fragment_out = <<>>

Init == InitCanvas(Classes, Sizes, PixelScales)

\* -------------------------------------------------------------- handlers
\* on_timer; at most maxTicks ticks are taken
OnTimer(maxTicks) ==
    /\ ~closed
    /\ ticks < maxTicks
    /\ surface_t' = PropagateSurface(surface_t)
    /\ surface_wave_list' = PropagateAll(surface_wave_list)
    /\ ticks' = ticks + 1
    /\ update_pending' = TRUE
    /\ update_req' = ticks + 1
    /\ UNCHANGED <<surface_class, next_id, sizeVars, a_height, a_normal,
                   point_a_height, drawn, cameraVars, keyVars,
                   shaderVars>>

\* a draw whose read of the field also advances the listed sources
OnDrawAdvancing ==
    /\ ~closed
    /\ LET avg == get_hieght_and_normal(surface_wave_list, surface_t)
       IN  /\ a_height' = HeightOf(avg)
           /\ a_normal' = GradOf(avg)
           /\ point_a_height' =
                  IF are_points_visible THEN HeightOf(avg) ELSE point_a_height
    /\ drawn' = [ticks |-> ticks, surface_t |-> surface_t, waves |-> surface_wave_list]
    /\ surface_wave_list' = PropagateAll(surface_wave_list)
    /\ update_pending' = FALSE
    /\ UNCHANGED <<surface_class, surface_t, next_id, ticks, sizeVars, update_req,
                   cameraVars, keyVars,
                   shaderVars>>

\* on_draw
OnDraw ==
    /\ ~closed
    /\ LET avg == get_hieght_and_normal(surface_wave_list, surface_t)
       IN  /\ a_height' = HeightOf(avg)
           /\ a_normal' = GradOf(avg)
           /\ point_a_height' =
                  IF are_points_visible THEN HeightOf(avg) ELSE point_a_height
    /\ drawn' = [ticks |-> ticks, surface_t |-> surface_t, waves |-> surface_wave_list]
    /\ update_pending' = FALSE
    /\ UNCHANGED <<waveVars, sizeVars, update_req, cameraVars, keyVars,
                   shaderVars>>

\* on_resize, after the window took a size of S
OnResize(S) ==
    /\ ~closed
    /\ \E sz \in S :
          /\ size' = sz
          /\ width' = sz[1]
          /\ height' = sz[2]
    /\ UNCHANGED <<waveVars, pixel_scale, drawVars, cameraVars, keyVars,
                   shaderVars>>

\* on_key_press of a key of K; at most maxKeys key events are taken
OnKeyPress(K, maxKeys) ==
    /\ ~closed
    /\ keys < maxKeys
    /\ \E key \in K :
          /\ last_key' = key
          /\ closed' = (key = "Escape")
          /\ are_points_visible' =
                 IF key = " " THEN ~are_points_visible ELSE are_points_visible
          /\ flags' = IF key \in DigitKeys
                      THEN [flags EXCEPT ![FlagOfKey(key)] = ~@]
                      ELSE flags
          /\ mults' = IF key \in DigitKeys THEN apply_flags(flags') ELSE mults
          /\ u_bed_depth' = CASE key = "Up" -> u_bed_depth + 1
                              [] key = "Down" -> u_bed_depth - 1
                              [] OTHER -> u_bed_depth
    /\ keys' = keys + 1
    /\ UNCHANGED <<waveVars, sizeVars, drawVars, cameraVars,
                   shaderVars>>

\* on_mouse_press at a position of P; at most maxSpawns sources are spawned
OnMousePress(P, maxSpawns) ==
    /\ ~closed
    /\ next_id < maxSpawns + 2
    /\ \E pos \in P :
          /\ drag_start' = screen_to_gl_coordinates(pos, size)
          /\ surface_wave_list' =
                 add_wave_center(surface_wave_list, surface_class, pos,
                                 physical_size, next_id, ticks)
    /\ next_id' = IF surface_class = "None" THEN next_id ELSE next_id + 1
    /\ UNCHANGED <<surface_class, surface_t, ticks, sizeVars, drawVars,
                   camera, up, u_world_view, rotations, keyVars,
                   shaderVars>>

\* a pointer move that rotates the camera whether or not a drag is under way,
\* measuring the shift from the window's center when there is none
OnMouseMoveAlways(P, maxRot) ==
    /\ ~closed
    /\ rotations < maxRot
    /\ \E pos \in P :
          LET p    == screen_to_gl_coordinates(pos, size)
              from == IF drag_start # NoDrag THEN drag_start ELSE <<0, 0>>
              cu   == rotate_camera(camera, up, <<p[1] - from[1], p[2] - from[2]>>)
          IN  /\ camera' = cu[1]
              /\ up' = cu[2]
              /\ drag_start' = drag_start
              /\ u_world_view' = set_camera(cu[1], cu[2])
    /\ rotations' = rotations + 1
    /\ update_pending' = TRUE
    /\ UNCHANGED <<waveVars, sizeVars, a_height, a_normal, point_a_height,
                   drawn, update_req, keyVars,
                   shaderVars>>

\* a pointer move that rotates the camera and leaves the view uniform alone
OnMouseMoveStaleView(P, maxRot) ==
    /\ ~closed
    /\ \E pos \in P :
          IF drag_start # NoDrag
          THEN /\ rotations < maxRot
               /\ LET p  == screen_to_gl_coordinates(pos, size)
                      cu == rotate_camera(camera, up,
                                          <<p[1] - drag_start[1], p[2] - drag_start[2]>>)
                  IN  /\ camera' = cu[1]
                      /\ up' = cu[2]
                      /\ drag_start' = p
               /\ rotations' = rotations + 1
               /\ update_pending' = TRUE
               /\ UNCHANGED <<waveVars, sizeVars, a_height, a_normal, point_a_height,
                              drawn, update_req, keyVars, u_world_view,
                   shaderVars>>
          ELSE UNCHANGED vars

\* on_mouse_move to a position of P; at most maxRot rotations are made
OnMouseMove(P, maxRot) ==
    /\ ~closed
    /\ \E pos \in P :
          IF drag_start # NoDrag
          THEN /\ rotations < maxRot
               /\ LET p  == screen_to_gl_coordinates(pos, size)
                      cu == rotate_camera(camera, up,
                                          <<p[1] - drag_start[1], p[2] - drag_start[2]>>)
                  IN  /\ camera' = cu[1]
                      /\ up' = cu[2]
                      /\ drag_start' = p
                      /\ u_world_view' = set_camera(cu[1], cu[2])
               /\ rotations' = rotations + 1
               /\ update_pending' = TRUE
               /\ UNCHANGED <<waveVars, sizeVars, a_height, a_normal, point_a_height,
                              drawn, update_req, keyVars,
                   shaderVars>>
          ELSE UNCHANGED vars

\* on_mouse_release
OnMouseRelease ==
    /\ ~closed
    /\ drag_start' = NoDrag
    /\ UNCHANGED <<waveVars, sizeVars, drawVars, camera, up, u_world_view,
                   rotations, keyVars,
                   shaderVars>>

\* program.draw('triangles', ...) for one vertex with attributes of A and
\* for the fragment at that vertex, under the uniforms of the current state.
\* vertex_out and fragment_out keep the results of one draw, taken in any
\* state; the draws after it are not recorded.
DrawTriangles(A) ==
    /\ ~closed
    /\ vertex_out = <<>>
    /\ \E a \in A, sky \in SkySamples, bed \in BedSamples, u \in Undefined :
          LET v == vertex(a, u_world_view, 100 * u_bed_depth, u_eye_height, u_alpha, u)
          IN  /\ vertex_out' = << v >>
              /\ fragment_out' = << fragment_triangle(v, sky, bed, mults, u) >>
    /\ UNCHANGED <<waveVars, sizeVars, drawVars, cameraVars, keyVars,
                   u_alpha, u_eye_height>>

\* ------------------------------------------------------- specifications
\* every handler of the canvas
Next ==
    \/ OnTimer(FewTicks)
    \/ OnDraw
    \/ OnResize(Sizes)
    \/ OnKeyPress(SomeKeys, FewKeys)
    \/ OnMousePress(TwoPositions(size), FewSpawns)
    \/ OnMouseMove(TwoPositions(size), FewRot)
    \/ OnMouseRelease

Spec == Init /\ [][Next]_vars

\* the wave sources: ticks, draws and spawns
NextWaves ==
    \/ OnTimer(MaxTicks)
    \/ OnDraw
    \/ OnMousePress(TwoPositions(size), MaxSpawns)
    \/ OnMouseRelease

SpecWaves == Init /\ [][NextWaves]_vars

\* the camera: drags
NextCamera ==
    \/ OnMousePress(DragPositions(size), FewSpawns)
    \/ OnMouseMove(DragPositions(size), MaxRot)
    \/ OnMouseRelease
    \/ OnDraw

SpecCamera == Init /\ [][NextCamera]_vars

\* the configuration: key events between presses and draws
NextKeys ==
    \/ OnKeyPress(Keys, MaxKeys)
    \/ OnMousePress(TwoPositions(size), FewSpawns)
    \/ OnMouseRelease
    \/ OnDraw

SpecKeys == Init /\ [][NextKeys]_vars

\* the coordinate mapping: spawns at the center of windows of many sizes
NextCoords ==
    \/ OnMousePress(CenterPosition(size), MaxSpawns)
    \/ OnMouseRelease
    \/ OnResize(ManySizes)
    \/ OnTimer(FewTicks)

InitCoords == InitCanvas({"Wave"}, ManySizes, ManyPixelScales)

SpecCoords == InitCoords /\ [][NextCoords]_vars

\* the shaders: draws of single vertices between drags and key events
NextShader ==
    \/ OnMousePress(TwoPositions(size), FewSpawns)
    \/ OnMouseMove(TwoPositions(size), FewRot)
    \/ OnMouseRelease
    \/ OnKeyPress(ShaderKeys, FewKeys)
    \/ DrawTriangles(VertexAttributes)

InitShader == InitCanvas({"None"}, Sizes, PixelScales)

SpecShader == InitShader /\ [][NextShader]_vars

\* ================================================================ claims
\* the j-th component, at lattice point p, of the fields of the sources
\* list[i], list[i+1], ... added up
RECURSIVE SumAt(_, _, _, _)
SumAt(list, p, j, i) ==
    IF i > Len(list) THEN 0
    ELSE WaveField(list[i])[p][j] + SumAt(list, p, j, i + 1)

\* what get_hieght_and_normal returns in the current state
CurrentField == get_hieght_and_normal(surface_wave_list, surface_t)

\* C1 as stated: with N >= 1 listed sources the returned height and
\* gradient at every lattice point are (surface + sum of the sources) / (N+1).
C1_MeanIncludesSurface ==
    Len(surface_wave_list) >= 1 =>
        /\ CurrentField.n > 0
        /\ \A p \in Lattice : \A j \in 1..3 :
              CurrentField.sum[p][j] * (Len(surface_wave_list) + 1)
                = (SurfaceField(surface_t)[p][j] + SumAt(surface_wave_list, p, j, 1))
                    * CurrentField.n

\* C1 amended: with N >= 1 listed sources the returned height and gradient
\* at every lattice point are (sum of the N sources) / N; the background
\* surface is not part of the mean.
C1_MeanOfSources ==
    Len(surface_wave_list) >= 1 =>
        /\ CurrentField.n > 0
        /\ \A p \in Lattice : \A j \in 1..3 :
              CurrentField.sum[p][j] * Len(surface_wave_list)
                = SumAt(surface_wave_list, p, j, 1) * CurrentField.n

\* three sources of different ages are listed
C1_Witness ==
    /\ Len(surface_wave_list) = 3
    /\ surface_wave_list[1].t > surface_wave_list[3].t

\* C2: with an empty wave-source list get_hieght_and_normal returns the
\* surface's height_and_normal() itself, divided by nothing.
C2_EmptyListGivesSurface ==
    surface_wave_list = <<>> =>
        /\ CurrentField.n = 1
        /\ CurrentField.sum = SurfaceField(surface_t)

\* the list is empty after the surface has moved
C2_Witness ==
    /\ surface_wave_list = <<>>
    /\ ticks >= 2

\* the last draw read a non-empty list all of whose sources were dead
DrawnAllDead ==
    /\ drawn.ticks >= 0
    /\ drawn.waves # <<>>
    /\ \A i \in DOMAIN drawn.waves : IsDead(drawn.waves[i])

\* C3 as stated: once every spawned source is dead and nothing is spawned,
\* a draw submits the background surface's field alone.
C3_DeadFallsBackToSurface ==
    DrawnAllDead =>
        /\ a_height.n > 0
        /\ \A p \in Lattice :
              /\ a_height.sum[p] = SurfaceField(drawn.surface_t)[p][1] * a_height.n
              /\ a_normal.sum[p][1] = SurfaceField(drawn.surface_t)[p][2] * a_normal.n
              /\ a_normal.sum[p][2] = SurfaceField(drawn.surface_t)[p][3] * a_normal.n

\* C3 amended: once every spawned source is dead and nothing is spawned, the
\* dead sources stay listed and a draw submits the mean of their fields.
C3_DeadStillAveraged ==
    DrawnAllDead =>
        /\ a_height.n > 0
        /\ a_normal.n > 0
        /\ \A p \in Lattice :
              /\ a_height.sum[p] * Len(drawn.waves)
                    = SumAt(drawn.waves, p, 1, 1) * a_height.n
              /\ a_normal.sum[p][1] * Len(drawn.waves)
                    = SumAt(drawn.waves, p, 2, 1) * a_normal.n
              /\ a_normal.sum[p][2] * Len(drawn.waves)
                    = SumAt(drawn.waves, p, 3, 1) * a_normal.n

\* a draw read two dead sources, one of them dead for a tick already
C3_Witness ==
    /\ DrawnAllDead
    /\ Len(drawn.waves) = 2
    /\ drawn.waves[1].t > Lifetime

\* the identities of the listed sources, in list order
Ids(list) == [i \in DOMAIN list |-> list[i].id]

\* C4: a spawn leaves the list equal to its non-dead sources, in their
\* order, followed by exactly one new source.
C4_SpawnPrunesThenAppends ==
    [][ next_id' # next_id =>
          LET old == surface_wave_list
              new == surface_wave_list'
              k   == Len(new)
              kept == { i \in DOMAIN old : old[i].t < Lifetime }
          IN  /\ k = Cardinality(kept) + 1
              /\ new[k].id = next_id
              /\ new[k].t = 0
              /\ \A i \in DOMAIN old : new[k].id # old[i].id
              /\ \A i \in kept :
                    new[Cardinality({ j \in kept : j <= i })] = old[i]
      ]_vars

\* the first source was swept away, the second survived the sweep and the
\* third was appended behind it
C4_Witness ==
    /\ next_id = 4
    /\ Ids(surface_wave_list) = <<2, 3>>

\* C5: with no wave-source class configured the list stays empty through
\* every event and every draw submits the background surface's field.
C5_NoClassNoWaves ==
    surface_class = "None" =>
        /\ surface_wave_list = <<>>
        /\ drawn.ticks >= 0 =>
              /\ drawn.waves = <<>>
              /\ a_height.n = 1
              /\ a_normal.n = 1
              /\ \A p \in Lattice :
                    /\ a_height.sum[p] = SurfaceField(drawn.surface_t)[p][1]
                    /\ a_normal.sum[p] = << SurfaceField(drawn.surface_t)[p][2],
                                            SurfaceField(drawn.surface_t)[p][3] >>

\* without a class: a press, a key event and a tick happened, then a draw
C5_Witness ==
    /\ surface_class = "None"
    /\ drag_start # NoDrag
    /\ keys >= 1
    /\ drawn.ticks >= 1

\* C6: only a spawn changes which sources are listed and in what order, so
\* a dead source stays listed through ticks, draws, key events, pointer
\* moves and releases; the next spawn removes every dead source.
C6_LazyPruning ==
    [][ IF next_id' = next_id
        THEN Ids(surface_wave_list') = Ids(surface_wave_list)
        ELSE \A i \in DOMAIN surface_wave_list :
                IsDead(surface_wave_list[i]) =>
                    \A j \in DOMAIN surface_wave_list' :
                        surface_wave_list'[j].id # surface_wave_list[i].id
      ]_vars

\* a dead source is still listed after a draw, a key event and a rotation
\* that followed its death
C6_Witness ==
    /\ \E i \in DOMAIN surface_wave_list : IsDead(surface_wave_list[i])
    /\ \E i \in DOMAIN drawn.waves : IsDead(drawn.waves[i])
    /\ keys >= 1
    /\ rotations >= 1

\* C7: every tick advances the surface and every listed source by 0.01
\* exactly once: a source's elapsed time is 0.01 times the ticks since its
\* spawn, the surface's is 0.01 times all ticks.
C7_OnePropagatePerTick ==
    /\ surface_t = DT * ticks
    /\ \A i \in DOMAIN surface_wave_list :
          surface_wave_list[i].t = DT * (ticks - surface_wave_list[i].born)

\* sources spawned at different ticks are listed after three ticks
C7_Witness ==
    /\ ticks = 3
    /\ Len(surface_wave_list) >= 2
    /\ surface_wave_list[1].born < surface_wave_list[Len(surface_wave_list)].born
    /\ surface_wave_list[Len(surface_wave_list)].born >= 1

\* C8: a draw reads a field in which every tick taken so far has advanced
\* the surface and all listed sources, and the draw that serves a tick's
\* request reads the field after that tick.
C8_TickCompletesBeforeRead ==
    /\ drawn.ticks >= 0 =>
          /\ drawn.surface_t = DT * drawn.ticks
          /\ \A i \in DOMAIN drawn.waves :
                drawn.waves[i].t = DT * (drawn.ticks - drawn.waves[i].born)
          /\ a_height = HeightOf(get_hieght_and_normal(drawn.waves, drawn.surface_t))
    /\ (update_req >= 0 /\ ~update_pending) => drawn.ticks >= update_req

\* the request of the second tick was served by a draw of two sources
C8_Witness ==
    /\ update_req = 2
    /\ ~update_pending
    /\ drawn.ticks = 2
    /\ Len(drawn.waves) >= 2

\* C9: in every reachable state camera and up have unit length and are
\* orthogonal, within a tolerance of one hundredth on the squared lengths
\* and on the dot product.
C9_CameraBasisOrthonormal ==
    /\ Abs(Dot(camera, camera) - 1000000) <= 10000
    /\ Abs(Dot(up, up) - 1000000) <= 10000
    /\ Abs(Dot(camera, up)) <= 10000

\* the layers, with the multiplier each has when its flag is on, in tenths
Layers == {"diffused", "reflected", "bed", "depth", "sky"}

OnValue(layer) == IF layer = "diffused" THEN 5 ELSE 10

\* the key event flipped the flag of this layer and no other
FlipsOnly(layer) ==
    /\ flags'[layer] = ~flags[layer]
    /\ \A other \in Layers \ {layer} : flags'[other] = flags[other]
    /\ UNCHANGED <<are_points_visible, u_bed_depth>>

\* C10: a key event touches its own item only: '1'..'5' flip the diffuse,
\* bed, depth, sky and reflected flag, space flips the lattice points,
\* Up and Down move the bed-depth offset by +0.1 and -0.1; the camera, the
\* drag, the wave sources and the other items are unchanged, and each
\* multiplier is afterwards 0 with its flag off and its on-value with it on.
C10_KeyTouchesOwnItemOnly ==
    [][ keys' # keys =>
          /\ UNCHANGED <<waveVars, sizeVars, drawVars, cameraVars>>
          /\ last_key' = "1" => FlipsOnly("diffused")
          /\ last_key' = "2" => FlipsOnly("bed")
          /\ last_key' = "3" => FlipsOnly("depth")
          /\ last_key' = "4" => FlipsOnly("sky")
          /\ last_key' = "5" => FlipsOnly("reflected")
          /\ last_key' = " " =>
                /\ are_points_visible' = ~are_points_visible
                /\ UNCHANGED <<flags, mults, u_bed_depth>>
          /\ last_key' = "Up" =>
                /\ u_bed_depth' = u_bed_depth + 1
                /\ UNCHANGED <<flags, mults, are_points_visible>>
          /\ last_key' = "Down" =>
                /\ u_bed_depth' = u_bed_depth - 1
                /\ UNCHANGED <<flags, mults, are_points_visible>>
          /\ last_key' \in {"Escape", "a"} =>
                UNCHANGED <<flags, mults, are_points_visible, u_bed_depth>>
          /\ \A layer \in Layers :
                mults'[layer] = IF flags'[layer] THEN OnValue(layer) ELSE 0
      ]_vars

\* the seabed layer was switched off and the depth layer left on, during a drag
\* with two sources listed
C10_Witness ==
    /\ keys = 2
    /\ last_key = "2"
    /\ ~flags.bed
    /\ flags.depth
    /\ ~flags.diffused
    /\ mults.bed = 0
    /\ drag_start # NoDrag
    /\ Len(surface_wave_list) = 2

\* C11: the spawn of the constructor and every press at the center of the
\* window create a source whose center is (0, 0), whatever the window's size.
\* Under SpecCoords every source is spawned at the window's center.
C11_CenterSpawnAtOrigin ==
    \A i \in DOMAIN surface_wave_list : surface_wave_list[i].center = <<0, 0>>

\* C12: camera and up change only in a pointer move made during a drag,
\* that is, between a press and the release that follows it; no other
\* event changes them.
C12_CameraChangesOnlyInDrag ==
    [][ (camera' # camera \/ up' # up) =>
          /\ drag_start # NoDrag
          /\ drag_start' # NoDrag
          /\ rotations' = rotations + 1
          /\ UNCHANGED <<waveVars, sizeVars, keyVars>>
      ]_vars

\* the camera was rotated in a drag that has ended, and a tick, a key event
\* and a draw have happened
C12_Witness ==
    /\ rotations >= 1
    /\ camera # <<0, 0, 1000>>
    /\ drag_start = NoDrag
    /\ ticks >= 1
    /\ keys >= 1
    /\ drawn.ticks >= 1

\* C14: the view uniform is never stale: u_world_view is the transpose of
\* the matrix whose rows are cross(up, camera), up and camera of the current
\* state, so every draw uses the basis of the last completed rotation.
C14_ViewUniformIsCurrent ==
    LET rows == << Cross(up, camera), up, camera >>
    IN  /\ \A i \in 1..3 : \A j \in 1..3 : u_world_view[i][j] = rows[j][i]
        /\ \A i \in 1..3 : u_world_view[i][4] = 0 /\ u_world_view[4][i] = 0
        /\ u_world_view[4][4] = 1000

\* a draw followed two rotations of the camera
C14_Witness ==
    /\ rotations = 2
    /\ camera # <<0, 0, 1000>>
    /\ drawn.ticks >= 0
    /\ ~update_pending

\* C17: when a wave-source class is configured the list of wave sources is
\* never empty: it holds one source after construction and no event
\* shortens it to length 0.
C17_ListNeverEmpty ==
    surface_class = "Wave" => Len(surface_wave_list) >= 1

\* a class is configured and a press has pruned every source that was
\* listed, leaving only the one it appended, which a later tick has advanced
C17_Witness ==
    /\ surface_class = "Wave"
    /\ next_id >= 3
    /\ Len(surface_wave_list) = 1
    /\ surface_wave_list[1].born >= Lifetime
    /\ surface_wave_list[1].t >= 1
    /\ drawn.ticks = ticks

C13_NormalAlwaysDefined ==
    \A i \in DOMAIN vertex_out :
        LET v == vertex_out[i]
        IN  /\ v.normal_len >= 1000
            /\ "v_normal" \notin v.undef
            /\ Abs(Dot(v.v_normal, v.v_normal) - 1000000) <= 4000
            /\ Abs(Dot(v.normal, v.normal) - 1000000) <= 4000

\* the vertex shader ran for a vertex whose gradient is zero, after a
\* rotation of the camera
C13_Witness ==
    /\ rotations >= 1
    /\ \E i \in DOMAIN vertex_out :
          /\ vertex_out[i].a_normal = <<0, 0>>
          /\ vertex_out[i].v_normal = <<0, 0, -1000>>

\* C15: at every vertex drawn in a reachable state the refraction
\* discriminant d = 1 - alpha^2 |cross(normal, from_eye)|^2 is at least 0,
\* with alpha still 0.3 and normal and from_eye of unit length, so sqrt(d)
\* is defined.
C15_DiscriminantNonNegative ==
    /\ u_alpha = 300
    /\ \A i \in DOMAIN vertex_out :
          LET v == vertex_out[i]
          IN  /\ v.d >= 0
              /\ "c2" \notin v.undef
              /\ "from_eye" \notin v.undef
              /\ Abs(Dot(v.normal, v.normal) - 1000000) <= 4000
              /\ Abs(Dot(v.from_eye, v.from_eye) - 1000000) <= 4000

\* a vertex with a steep gradient was drawn after a rotation and a key
\* event, and its discriminant is below 1: the ray is bent
C15_Witness ==
    /\ rotations >= 1
    /\ keys >= 1
    /\ \E i \in DOMAIN vertex_out :
          /\ vertex_out[i].a_normal = <<3000, 0>>
          /\ vertex_out[i].d < 1000
          /\ vertex_out[i].c2 > 0

\* C16: a vertex is flagged bed-above-water exactly when total_depth =
\* -a_bed_depth - u_bed_depth exceeds its height; then the bed point is the
\* vertex itself, the attenuation distance is 0 and the colour is the bed
\* sample whatever the multipliers; otherwise the flag is 0 and the colour
\* is the blended one.
C16_BedAboveWaterOverride ==
    /\ \A i \in DOMAIN vertex_out :
          LET v == vertex_out[i]
          IN  /\ v.bed_upper_water \in {0, 1000}
              /\ v.total_depth = (-v.a_bed_depth) - v.u_bed_depth
              /\ v.bed_upper_water = 1000 <=> v.total_depth > v.a_height
              /\ v.bed_upper_water = 1000 =>
                    /\ v.point_on_bed = v.v_position
                    /\ v.diw = 0
                    /\ v.v_mask = <<1000, 1000, 1000>>
                    /\ v.v_bed_texcoord = <<v.a_position[1] + 500, v.a_position[2] + 500>>
    /\ \A i \in DOMAIN fragment_out :
          LET f == fragment_out[i]
              v == vertex_out[i]
          IN  /\ f.bed_upper_water = v.bed_upper_water
              /\ f.bed_upper_water = 1000 =>
                    f.gl_FragColor = <<f.bed_color[1], f.bed_color[2], f.bed_color[3], 1000>>
              /\ f.bed_upper_water = 0 =>
                    \E u \in Undefined :
                        LET rgb == Blend(v, f.sky_color, f.bed_color, f.mults, u)
                        IN  f.gl_FragColor = <<rgb[1], rgb[2], rgb[3], 1000>>

\* a vertex whose bed is above the water was drawn with the bed layer
\* switched off, and its colour is the bed sample
C16_Witness ==
    \E i \in DOMAIN fragment_out :
        /\ vertex_out[i].total_depth = 200
        /\ vertex_out[i].a_height = 100
        /\ vertex_out[i].bed_upper_water = 1000
        /\ fragment_out[i].mults.bed = 0
        /\ fragment_out[i].gl_FragColor = <<700, 600, 300, 1000>>

====
